---- MODULE Spec2Model ----
(***************************************************************************)
(* Model of wasm-print (src/src/lib.rs): the Printer writer (write/flush   *)
(* over a String buffer and a fallible print_fn), the stream installers,   *)
(* and init(), which runs hook() under a std::sync::Once.                  *)
(*                                                                         *)
(* Text is a sequence of Unicode code points, bytes are integers 0..255.   *)
(***************************************************************************)
EXTENDS Integers, Sequences, FiniteSets, TLC

\* ---- bounds ----
MaxChunk == 1      \* longest chunk over Bytes passed to write
MaxOps == 3        \* number of write/flush calls on the Printer
MaxFails == 1      \* number of sink calls that return an error
NThreads == 3      \* concurrent callers of init
NCalls == 2        \* calls to init per caller
MaxEvents == 4     \* installer calls, channel writes and panics of the process

\* ---- program constants ----
NL == 10              \* '\n'
REPLACEMENT == 65533  \* U+FFFD, substituted by String::from_utf8_lossy

\* '\n' and 'a'
Bytes == {10, 97}

BoundedSeq(S, n) == UNION {[1..k -> S] : k \in 0..n}

\* "abc\ndef" and "ghi\n", the two writes of the documented example
ExampleChunk1 == <<97, 98, 99, 10, 100, 101, 102>>
ExampleChunk2 == <<103, 104, 105, 10>>
\* "a\n\na": two newlines and an unfinished line
TwoLineChunk == <<97, 10, 10, 97>>
\* U+00E9 (0xC3 0xA9) whole, and each of its bytes alone
EAcuteChunks == {<<195, 169>>, <<195>>, <<169>>}

Chunks ==
    BoundedSeq(Bytes, MaxChunk) \cup {ExampleChunk1, ExampleChunk2, TwoLineChunk}
        \cup EAcuteChunks

VARIABLES
    buffer,        \* Printer.buffer
    is_buffered,   \* Printer.is_buffered
    history,       \* the write/flush calls made so far, with what each did
    fails,         \* number of sink calls that returned Err
    START,         \* the Once of init()
    pc,            \* where each caller of init is
    calls_left,    \* calls to init each caller has still to make
    runner,        \* the caller that runs the closure of call_once, if any
    stdout,        \* the writer installed by io::set_print
    stderr,        \* the writer installed by io::set_panic
    panic_hook,    \* the handler installed by panic::set_hook
    installs,      \* how often each installer has run
    console,       \* the calls made to console.info / warn / trace, in order
    events         \* the installer calls, channel writes and panics so far

pvars == <<buffer, is_buffered, history, fails>>
gvars == <<START, pc, calls_left, runner, stdout, stderr, panic_hook, installs>>
cvars == <<console, events>>
vars == <<buffer, is_buffered, history, fails,
          START, pc, calls_left, runner, stdout, stderr, panic_hook, installs,
          console, events>>

\* ---- String::from_utf8_lossy ----
safe_get(s, i) == IF i <= Len(s) THEN s[i] ELSE 0

IsCont(b) == b >= 128 /\ b <= 191

utf8_char_width(b) ==
    IF b < 128 THEN 1
    ELSE IF b >= 194 /\ b <= 223 THEN 2
    ELSE IF b >= 224 /\ b <= 239 THEN 3
    ELSE IF b >= 240 /\ b <= 244 THEN 4
    ELSE 0

Second3Ok(b0, b1) ==
    \/ b0 = 224 /\ b1 \in 160..191
    \/ b0 \in 225..236 /\ b1 \in 128..191
    \/ b0 = 237 /\ b1 \in 128..159
    \/ b0 \in 238..239 /\ b1 \in 128..191

Second4Ok(b0, b1) ==
    \/ b0 = 240 /\ b1 \in 144..191
    \/ b0 \in 241..243 /\ b1 \in 128..191
    \/ b0 = 244 /\ b1 \in 128..143

\* One step of the lossy decoder at index i: the character produced and the
\* index of the next byte.  An invalid sequence yields one U+FFFD for its
\* maximal valid prefix.
DecodeAt(s, i) ==
    LET b0 == s[i]
        b1 == safe_get(s, i + 1)
        b2 == safe_get(s, i + 2)
        b3 == safe_get(s, i + 3)
        w == utf8_char_width(b0)
        bad(n) == [c |-> REPLACEMENT, n |-> n]
    IN  IF w = 1 THEN [c |-> b0, n |-> i + 1]
        ELSE IF w = 2 THEN
            IF ~IsCont(b1) THEN bad(i + 1)
            ELSE [c |-> (b0 - 192) * 64 + (b1 - 128), n |-> i + 2]
        ELSE IF w = 3 THEN
            IF ~Second3Ok(b0, b1) THEN bad(i + 1)
            ELSE IF ~IsCont(b2) THEN bad(i + 2)
            ELSE [c |-> (b0 - 224) * 4096 + (b1 - 128) * 64 + (b2 - 128),
                  n |-> i + 3]
        ELSE IF w = 4 THEN
            IF ~Second4Ok(b0, b1) THEN bad(i + 1)
            ELSE IF ~IsCont(b2) THEN bad(i + 2)
            ELSE IF ~IsCont(b3) THEN bad(i + 3)
            ELSE [c |-> (b0 - 240) * 262144 + (b1 - 128) * 4096
                        + (b2 - 128) * 64 + (b3 - 128),
                  n |-> i + 4]
        ELSE bad(i + 1)

RECURSIVE LossyFrom(_, _)
LossyFrom(s, i) ==
    IF i > Len(s) THEN <<>>
    ELSE LET d == DecodeAt(s, i) IN <<d.c>> \o LossyFrom(s, d.n)

from_utf8_lossy(s) == LossyFrom(s, 1)

\* str::find in place of rfind: the first match
rfind_first(s, c) ==
    IF \E i \in 1..Len(s) : s[i] = c
    THEN CHOOSE i \in 1..Len(s) : s[i] = c /\ \A j \in 1..(i - 1) : s[j] # c
    ELSE 0

\* ---- str::rfind('\n'): 1-based position of the last match, 0 for None ----
rfind(s, c) ==
    IF \E i \in 1..Len(s) : s[i] = c
    THEN CHOOSE i \in 1..Len(s) : s[i] = c /\ \A j \in (i + 1)..Len(s) : s[j] # c
    ELSE 0

\* ---- results ----
Ok(n) == [ok |-> TRUE, n |-> n]
Err == [ok |-> FALSE, n |-> 0]

SinkCall(arg, ok) == [arg |-> arg, ok |-> ok]

\* ---- Printer::write ----
\* The outcome of write(chunk) on a Printer whose buffer is buf, when the
\* sink, if called, returns Ok (sinkOk) or Err.
push_str(buf, chunk) == buf \o from_utf8_lossy(chunk)

\* the buffer not cleared after forwarding
WriteUnbuffered_NoClear(b, chunk, sinkOk) ==
    IF sinkOk
    THEN [calls |-> <<SinkCall(b, TRUE)>>, buffer |-> b, ret |-> Ok(Len(chunk))]
    ELSE [calls |-> <<SinkCall(b, FALSE)>>, buffer |-> b, ret |-> Err]

WriteUnbuffered(b, chunk, sinkOk) ==
    IF sinkOk
    THEN [calls |-> <<SinkCall(b, TRUE)>>, buffer |-> <<>>, ret |-> Ok(Len(chunk))]
    ELSE [calls |-> <<SinkCall(b, FALSE)>>, buffer |-> b, ret |-> Err]

\* String::from(last) in place of &last[1..]: the newline stays in the buffer
WriteBuffered_KeepNewline(b, chunk, sinkOk) ==
    LET i == rfind(b, NL)
        first == SubSeq(b, 1, i - 1)
        last == SubSeq(b, i, Len(b))
    IN  IF i # 0 THEN
            IF sinkOk
            THEN [calls |-> <<SinkCall(first, TRUE)>>, buffer |-> last,
                  ret |-> Ok(Len(chunk))]
            ELSE [calls |-> <<SinkCall(first, FALSE)>>, buffer |-> b, ret |-> Err]
        ELSE [calls |-> <<>>, buffer |-> b, ret |-> Ok(Len(chunk))]

\* the buffer forwarded whether or not it holds a newline
WriteBuffered_AlwaysForward(b, chunk, sinkOk) ==
    LET i == rfind(b, NL)
        first == IF i # 0 THEN SubSeq(b, 1, i - 1) ELSE b
        buffered == IF i # 0 THEN SubSeq(b, i + 1, Len(b)) ELSE <<>>
    IN  IF sinkOk
        THEN [calls |-> <<SinkCall(first, TRUE)>>, buffer |-> buffered,
              ret |-> Ok(Len(chunk))]
        ELSE [calls |-> <<SinkCall(first, FALSE)>>, buffer |-> b, ret |-> Err]

\* the forwarded part left in the buffer
WriteBuffered_KeepAll(b, chunk, sinkOk) ==
    LET i == rfind(b, NL)
        first == SubSeq(b, 1, i - 1)
    IN  IF i # 0 THEN
            IF sinkOk
            THEN [calls |-> <<SinkCall(first, TRUE)>>, buffer |-> b,
                  ret |-> Ok(Len(chunk))]
            ELSE [calls |-> <<SinkCall(first, FALSE)>>, buffer |-> b, ret |-> Err]
        ELSE [calls |-> <<>>, buffer |-> b, ret |-> Ok(Len(chunk))]

\* &last[2..] in place of &last[1..]: the character after the newline is lost
WriteBuffered_SkipTwo(b, chunk, sinkOk) ==
    LET i == rfind(b, NL)
        first == SubSeq(b, 1, i - 1)
        last == SubSeq(b, i, Len(b))
        buffered == SubSeq(last, 3, Len(last))
    IN  IF i # 0 THEN
            IF sinkOk
            THEN [calls |-> <<SinkCall(first, TRUE)>>, buffer |-> buffered,
                  ret |-> Ok(Len(chunk))]
            ELSE [calls |-> <<SinkCall(first, FALSE)>>, buffer |-> b, ret |-> Err]
        ELSE [calls |-> <<>>, buffer |-> b, ret |-> Ok(Len(chunk))]

\* one sink call per line: the text before the first newline, then the
\* lines up to the last newline
WriteBuffered_PerLine(b, chunk, sinkOk) ==
    LET i == rfind(b, NL)
        j == rfind_first(b, NL)
        first == SubSeq(b, 1, i - 1)
        buffered == SubSeq(b, i + 1, Len(b))
    IN  IF i # 0 THEN
            IF sinkOk
            THEN [calls |-> IF j < i
                            THEN <<SinkCall(SubSeq(b, 1, j - 1), TRUE),
                                   SinkCall(SubSeq(b, j + 1, i - 1), TRUE)>>
                            ELSE <<SinkCall(first, TRUE)>>,
                  buffer |-> buffered, ret |-> Ok(Len(chunk))]
            ELSE [calls |-> <<SinkCall(first, FALSE)>>, buffer |-> b, ret |-> Err]
        ELSE [calls |-> <<>>, buffer |-> b, ret |-> Ok(Len(chunk))]

WriteBuffered(b, chunk, sinkOk) ==
    LET i == rfind(b, NL)
        first == SubSeq(b, 1, i - 1)
        last == SubSeq(b, i, Len(b))
        buffered == SubSeq(last, 2, Len(last))
    IN  IF i # 0 THEN
            IF sinkOk
            THEN [calls |-> <<SinkCall(first, TRUE)>>, buffer |-> buffered,
                  ret |-> Ok(Len(chunk))]
            ELSE [calls |-> <<SinkCall(first, FALSE)>>, buffer |-> b, ret |-> Err]
        ELSE [calls |-> <<>>, buffer |-> b, ret |-> Ok(Len(chunk))]

\* the chunk appended only once the sink has succeeded
write_PushAfterSink(buf, isbuf, chunk, sinkOk) ==
    LET b == push_str(buf, chunk)
        r == IF ~isbuf THEN WriteUnbuffered(b, chunk, sinkOk)
             ELSE WriteBuffered(b, chunk, sinkOk)
    IN  IF r.ret.ok THEN r ELSE [r EXCEPT !.buffer = buf]

\* Ok(number of characters decoded) in place of Ok(buf.len())
write_RetDecodedLen(buf, isbuf, chunk, sinkOk) ==
    LET b == push_str(buf, chunk)
        r == IF ~isbuf THEN WriteUnbuffered(b, chunk, sinkOk)
             ELSE WriteBuffered(b, chunk, sinkOk)
    IN  IF r.ret.ok THEN [r EXCEPT !.ret = Ok(Len(from_utf8_lossy(chunk)))] ELSE r

\* String::from_utf8(buf)? in place of from_utf8_lossy: invalid input is an error
write_Strict(buf, isbuf, chunk, sinkOk) ==
    LET b == push_str(buf, chunk)
    IN  IF \E i \in 1..Len(from_utf8_lossy(chunk)) :
                from_utf8_lossy(chunk)[i] = REPLACEMENT
        THEN [calls |-> <<>>, buffer |-> buf, ret |-> Err]
        ELSE IF ~isbuf THEN WriteUnbuffered(b, chunk, sinkOk)
        ELSE WriteBuffered(b, chunk, sinkOk)

write(buf, isbuf, chunk, sinkOk) ==
    LET b == push_str(buf, chunk)
    IN  IF ~isbuf THEN WriteUnbuffered(b, chunk, sinkOk)
        ELSE WriteBuffered(b, chunk, sinkOk)

\* ---- Printer::flush ----
\* the buffer not cleared after forwarding
flush_NoClear(buf, sinkOk) ==
    IF buf # <<>> THEN
        IF sinkOk
        THEN [calls |-> <<SinkCall(buf, TRUE)>>, buffer |-> buf, ret |-> Ok(0)]
        ELSE [calls |-> <<SinkCall(buf, FALSE)>>, buffer |-> buf, ret |-> Err]
    ELSE [calls |-> <<>>, buffer |-> buf, ret |-> Ok(0)]

\* the buffer cleared before the sink is called
flush_ClearFirst(buf, sinkOk) ==
    IF buf # <<>> THEN
        IF sinkOk
        THEN [calls |-> <<SinkCall(buf, TRUE)>>, buffer |-> <<>>, ret |-> Ok(0)]
        ELSE [calls |-> <<SinkCall(buf, FALSE)>>, buffer |-> <<>>, ret |-> Err]
    ELSE [calls |-> <<>>, buffer |-> buf, ret |-> Ok(0)]

flush(buf, sinkOk) ==
    IF buf # <<>> THEN
        IF sinkOk
        THEN [calls |-> <<SinkCall(buf, TRUE)>>, buffer |-> <<>>, ret |-> Ok(0)]
        ELSE [calls |-> <<SinkCall(buf, FALSE)>>, buffer |-> buf, ret |-> Err]
    ELSE [calls |-> <<>>, buffer |-> buf, ret |-> Ok(0)]

\* ---- the stream installers and the panic hook ----
Threads == 1..NThreads
NoThread == 0
NoWriter == [print_fn |-> "none", buffer |-> <<>>, is_buffered |-> FALSE, id |-> 0]
DefaultHook == [handler |-> "default", id |-> 0]

\* Printer::new; id tells one constructed Printer from another
Printer_new(print_fn, isbuf, id) ==
    [print_fn |-> print_fn, buffer |-> <<>>, is_buffered |-> isbuf, id |-> id]

Bump(f) == [installs EXCEPT ![f] = @ + 1]

set_stdout ==
    /\ stdout' = Printer_new("print", TRUE, installs.set_print + 1)
    /\ installs' = Bump("set_print")
    /\ UNCHANGED <<stderr, panic_hook>>

set_stderr ==
    /\ stderr' = Printer_new("eprint", TRUE, installs.set_panic + 1)
    /\ installs' = Bump("set_panic")
    /\ UNCHANGED <<stdout, panic_hook>>

set_panic_hook ==
    /\ panic_hook' = [handler |-> "trace", id |-> installs.set_hook + 1]
    /\ installs' = Bump("set_hook")
    /\ UNCHANGED <<stdout, stderr>>

set_stdout_unbuffered ==
    /\ stdout' = Printer_new("print", FALSE, installs.set_print + 1)
    /\ installs' = Bump("set_print")
    /\ UNCHANGED <<stderr, panic_hook>>

\* set_stderr copied without changing true to false
set_stderr_unbuffered_Buffered ==
    /\ stderr' = Printer_new("eprint", TRUE, installs.set_panic + 1)
    /\ installs' = Bump("set_panic")
    /\ UNCHANGED <<stdout, panic_hook>>

set_stderr_unbuffered ==
    /\ stderr' = Printer_new("eprint", FALSE, installs.set_panic + 1)
    /\ installs' = Bump("set_panic")
    /\ UNCHANGED <<stdout, panic_hook>>

\* ---- the sinks: print, eprint and the closure of set_panic_hook ----
ConsoleCall(level, text) == [level |-> level, text |-> text]

\* print: console.info(buf), Ok(())
print(buf) == [call |-> ConsoleCall("info", buf), ret |-> Ok(0)]
\* eprint: console.warn(buf), Ok(())
eprint(buf) == [call |-> ConsoleCall("warn", buf), ret |-> Ok(0)]

CallSink(print_fn, buf) == IF print_fn = "print" THEN print(buf) ELSE eprint(buf)

\* a panic: the payload (&'static str, String, or another type) and the
\* location, if any
Payloads ==
    {[kind |-> "str", text |-> "boom"],
     [kind |-> "String", text |-> "index out of bounds"],
     [kind |-> "other", text |-> ""]}
NoLocation == [some |-> FALSE, file |-> "", line |-> 0, column |-> 0]
Locations ==
    {NoLocation, [some |-> TRUE, file |-> "x.rs", line |-> 10, column |-> 3]}
PanicInfo(payload, location) == [payload |-> payload, location |-> location]

\* let msg = match info.payload().downcast_ref ...
panic_message(payload) ==
    IF payload.kind = "str" THEN payload.text
    ELSE IF payload.kind = "String" THEN payload.text
    ELSE "unknown location"

\* column and line in the wrong order
err_info_ColumnLine(info) ==
    LET msg == panic_message(info.payload)
        location == info.location
    IN  IF location.some
        THEN "Panicked at '" \o msg \o "', " \o location.file \o ":"
                \o ToString(location.column) \o ":" \o ToString(location.line)
        ELSE "Panicked at an unknown location '" \o msg \o "'"

\* let err_info = match info.location() ...
err_info(info) ==
    LET msg == panic_message(info.payload)
        location == info.location
    IN  IF location.some
        THEN "Panicked at '" \o msg \o "', " \o location.file \o ":"
                \o ToString(location.line) \o ":" \o ToString(location.column)
        ELSE "Panicked at an unknown location '" \o msg \o "'"

\* the report sent a second time
panic_handler_Twice(info) ==
    <<ConsoleCall("trace", err_info(info)), ConsoleCall("trace", err_info(info))>>

\* the closure given to panic::set_hook: the console calls it makes
panic_handler(info) == <<ConsoleCall("trace", err_info(info))>>

\* ---- the process: installer calls, writes to the channels, panics ----
\* what the program writes to a channel
OutChunks == {<<97>>, <<10>>, <<169>>}

Event(ev, arg, out, ret) == [ev |-> ev, arg |-> arg, out |-> out, ret |-> ret]

Log(ev, arg, out, ret) ==
    /\ Len(events) < MaxEvents
    /\ events' = Append(events, Event(ev, arg, out, ret))
    /\ console' = console \o out

OnceVars == <<START, pc, calls_left, runner>>

Install(ev, installer) ==
    /\ installer
    /\ Log(ev, <<>>, <<>>, Ok(0))
    /\ UNCHANGED <<pvars, OnceVars>>

SetStdout == Install("set_stdout", set_stdout)
SetStdoutUnbuffered == Install("set_stdout_unbuffered", set_stdout_unbuffered)
SetStderr == Install("set_stderr", set_stderr)
SetStderrUnbuffered == Install("set_stderr_unbuffered", set_stderr_unbuffered)
SetPanicHook == Install("set_panic_hook", set_panic_hook)

\* the console calls a write or flush on the writer w made
SinkOutput(w, r) ==
    [i \in 1..Len(r.calls) |-> CallSink(w.print_fn, r.calls[i].arg).call]

\* neither sink's result depends on the string it is given
SinkOk(w) == CallSink(w.print_fn, w.buffer).ret.ok

\* the program writes a chunk to standard output
StdoutWrite ==
    /\ stdout # NoWriter
    /\ \E chunk \in OutChunks :
          LET r == write(stdout.buffer, stdout.is_buffered, chunk, SinkOk(stdout))
          IN  /\ stdout' = [stdout EXCEPT !.buffer = r.buffer]
              /\ Log("stdout_write", chunk, SinkOutput(stdout, r), r.ret)
    /\ UNCHANGED <<pvars, OnceVars, stderr, panic_hook, installs>>

StdoutFlush ==
    /\ stdout # NoWriter
    /\ LET r == flush(stdout.buffer, SinkOk(stdout))
       IN  /\ stdout' = [stdout EXCEPT !.buffer = r.buffer]
           /\ Log("stdout_flush", <<>>, SinkOutput(stdout, r), r.ret)
    /\ UNCHANGED <<pvars, OnceVars, stderr, panic_hook, installs>>

\* the program writes a chunk to standard error
StderrWrite ==
    /\ stderr # NoWriter
    /\ \E chunk \in OutChunks :
          LET r == write(stderr.buffer, stderr.is_buffered, chunk, SinkOk(stderr))
          IN  /\ stderr' = [stderr EXCEPT !.buffer = r.buffer]
              /\ Log("stderr_write", chunk, SinkOutput(stderr, r), r.ret)
    /\ UNCHANGED <<pvars, OnceVars, stdout, panic_hook, installs>>

StderrFlush ==
    /\ stderr # NoWriter
    /\ LET r == flush(stderr.buffer, SinkOk(stderr))
       IN  /\ stderr' = [stderr EXCEPT !.buffer = r.buffer]
           /\ Log("stderr_flush", <<>>, SinkOutput(stderr, r), r.ret)
    /\ UNCHANGED <<pvars, OnceVars, stdout, panic_hook, installs>>

\* a panic while the hook of set_panic_hook is the installed one: the panic
\* machinery calls the hook once
Panic ==
    /\ panic_hook.handler = "trace"
    /\ \E payload \in Payloads, location \in Locations :
          LET info == PanicInfo(payload, location)
          IN  Log("panic", info, panic_handler(info), Ok(0))
    /\ UNCHANGED <<pvars, OnceVars, stdout, stderr, panic_hook, installs>>

\* ---- init(): START.call_once(|| hook()) ----
Goto(t, l) == pc' = [pc EXCEPT ![t] = l]

\* call_once returns to the caller of init
Return(t) ==
    /\ Goto(t, "idle")
    /\ calls_left' = [calls_left EXCEPT ![t] = @ - 1]

InitCall(t) ==
    /\ pc[t] = "idle"
    /\ calls_left[t] > 0
    /\ Goto(t, "fast")
    /\ UNCHANGED <<START, calls_left, runner, stdout, stderr, panic_hook, installs>>

\* call_once: if self.is_completed() { return }
FastPath(t) ==
    /\ pc[t] = "fast"
    /\ \/ START = "COMPLETE" /\ Return(t)
       \/ START # "COMPLETE" /\ Goto(t, "slow") /\ UNCHANGED calls_left
    /\ UNCHANGED <<START, runner, stdout, stderr, panic_hook, installs>>

\* a flag tested and set without the compare-and-swap: a caller that finds
\* RUNNING runs the closure as well
SlowPath_NoCas(t) ==
    /\ pc[t] = "slow"
    /\ \/ /\ START # "COMPLETE"
          /\ START' = "RUNNING"
          /\ runner' = t
          /\ Goto(t, "set_stdout")
          /\ UNCHANGED calls_left
       \/ /\ START = "COMPLETE"
          /\ Return(t)
          /\ UNCHANGED <<START, runner>>
    /\ UNCHANGED <<stdout, stderr, panic_hook, installs>>

\* Once::call: INCOMPLETE -> RUNNING by compare-and-swap, the winner runs the
\* closure; a caller that finds RUNNING waits; one that finds COMPLETE returns
SlowPath(t) ==
    /\ pc[t] = "slow"
    /\ \/ /\ START = "INCOMPLETE"
          /\ START' = "RUNNING"
          /\ runner' = t
          /\ Goto(t, "set_stdout")
          /\ UNCHANGED calls_left
       \/ /\ START = "RUNNING"
          /\ Goto(t, "wait")
          /\ UNCHANGED <<START, runner, calls_left>>
       \/ /\ START = "COMPLETE"
          /\ Return(t)
          /\ UNCHANGED <<START, runner>>
    /\ UNCHANGED <<stdout, stderr, panic_hook, installs>>

\* hook(): set_stdout(); set_stderr(); set_panic_hook();
HookSetStdout(t) ==
    /\ pc[t] = "set_stdout"
    /\ set_stdout
    /\ Goto(t, "set_stderr")
    /\ UNCHANGED <<START, calls_left, runner>>

HookSetStderr(t) ==
    /\ pc[t] = "set_stderr"
    /\ set_stderr
    /\ Goto(t, "set_panic_hook")
    /\ UNCHANGED <<START, calls_left, runner>>

HookSetPanicHook(t) ==
    /\ pc[t] = "set_panic_hook"
    /\ set_panic_hook
    /\ Goto(t, "complete")
    /\ UNCHANGED <<START, calls_left, runner>>

\* the closure has returned: the Once becomes COMPLETE and waiters are woken
Complete(t) ==
    /\ pc[t] = "complete"
    /\ START' = "COMPLETE"
    /\ Return(t)
    /\ UNCHANGED <<runner, stdout, stderr, panic_hook, installs>>

\* a caller that finds RUNNING returns without waiting
Wake_Early(t) ==
    /\ pc[t] = "wait"
    /\ Return(t)
    /\ UNCHANGED <<START, runner, stdout, stderr, panic_hook, installs>>

\* a waiter is released once the Once is no longer RUNNING
Wake(t) ==
    /\ pc[t] = "wait"
    /\ START = "COMPLETE"
    /\ Return(t)
    /\ UNCHANGED <<START, runner, stdout, stderr, panic_hook, installs>>

InCall(t) ==
    \/ FastPath(t) \/ SlowPath(t)
    \/ HookSetStdout(t) \/ HookSetStderr(t) \/ HookSetPanicHook(t)
    \/ Complete(t) \/ Wake(t)

\* ---- the Printer as a state machine ----
Entry(op, chunk, pre, r) ==
    [op |-> op, chunk |-> chunk, pre |-> pre, post |-> r.buffer,
     calls |-> r.calls, ret |-> r.ret]

NFailed(r) == IF r.ret.ok THEN 0 ELSE 1

Apply(op, chunk, r) ==
    /\ Len(history) < MaxOps
    /\ fails + NFailed(r) <= MaxFails
    /\ buffer' = r.buffer
    /\ history' = Append(history, Entry(op, chunk, buffer, r))
    /\ fails' = fails + NFailed(r)
    /\ UNCHANGED is_buffered

Write ==
    /\ \E chunk \in Chunks, sinkOk \in BOOLEAN :
          Apply("write", chunk, write(buffer, is_buffered, chunk, sinkOk))
    /\ UNCHANGED <<gvars, cvars>>

Flush ==
    /\ \E sinkOk \in BOOLEAN :
          Apply("flush", <<>>, flush(buffer, sinkOk))
    /\ UNCHANGED <<gvars, cvars>>

\* ---- specifications ----
\* Printer::new: empty buffer, the mode given by the caller
PInit ==
    /\ buffer = <<>>
    /\ history = <<>>
    /\ fails = 0

\* process start: nothing installed, the Once INCOMPLETE
GInit ==
    /\ START = "INCOMPLETE"
    /\ pc = [t \in Threads |-> "idle"]
    /\ calls_left = [t \in Threads |-> NCalls]
    /\ runner = NoThread
    /\ stdout = NoWriter
    /\ stderr = NoWriter
    /\ panic_hook = DefaultHook
    /\ installs = [set_print |-> 0, set_panic |-> 0, set_hook |-> 0]
    /\ console = <<>>
    /\ events = <<>>

\* one Printer, in either mode, written to and flushed
Init == PInit /\ is_buffered \in BOOLEAN /\ GInit
Next == Write \/ Flush
Spec == Init /\ [][Next]_vars

\* callers of init() running concurrently
OnceInit == PInit /\ is_buffered = TRUE /\ GInit
OnceNext ==
    \/ \E t \in Threads : InitCall(t) /\ UNCHANGED <<pvars, cvars>>
    \/ \E t \in Threads : FastPath(t) /\ UNCHANGED <<pvars, cvars>>
    \/ \E t \in Threads : SlowPath(t) /\ UNCHANGED <<pvars, cvars>>
    \/ \E t \in Threads : HookSetStdout(t) /\ UNCHANGED <<pvars, cvars>>
    \/ \E t \in Threads : HookSetStderr(t) /\ UNCHANGED <<pvars, cvars>>
    \/ \E t \in Threads : HookSetPanicHook(t) /\ UNCHANGED <<pvars, cvars>>
    \/ \E t \in Threads : Complete(t) /\ UNCHANGED <<pvars, cvars>>
    \/ \E t \in Threads : Wake(t) /\ UNCHANGED <<pvars, cvars>>
SpecOnce == OnceInit /\ [][OnceNext]_vars
\* every caller inside call_once keeps being scheduled
SpecOnceFair == SpecOnce /\ \A t \in Threads : WF_vars(InCall(t) /\ UNCHANGED <<pvars, cvars>>)

\* the installers called in any order, the channels written to, panics
ProcNext ==
    \/ SetStdout \/ SetStdoutUnbuffered \/ SetStderr \/ SetStderrUnbuffered
    \/ SetPanicHook
    \/ StdoutWrite \/ StdoutFlush \/ StderrWrite \/ StderrFlush
    \/ Panic
SpecProc == OnceInit /\ [][ProcNext]_vars

\* ---- what a run of the Printer has received and forwarded ----
RECURSIVE Flatten(_)
Flatten(ss) == IF ss = <<>> THEN <<>> ELSE Head(ss) \o Flatten(Tail(ss))

\* the text an entry of the history passed to the sink in successful calls
EntryForwarded(e) ==
    Flatten([i \in 1..Len(e.calls) |->
                IF e.calls[i].ok THEN e.calls[i].arg ELSE <<>>])

\* the same, each string forwarded by a write followed by a line break
EntryForwardedLines(e) ==
    Flatten([i \in 1..Len(e.calls) |->
                IF ~e.calls[i].ok THEN <<>>
                ELSE IF e.op = "write" THEN e.calls[i].arg \o <<NL>>
                ELSE e.calls[i].arg])

Forwarded(h) == Flatten([k \in 1..Len(h) |-> EntryForwarded(h[k])])
ForwardedLines(h) == Flatten([k \in 1..Len(h) |-> EntryForwardedLines(h[k])])
AllBytes(h) == Flatten([k \in 1..Len(h) |-> h[k].chunk])
DecodedChunks(h) == Flatten([k \in 1..Len(h) |-> from_utf8_lossy(h[k].chunk)])

Contains(s, c) == \E i \in 1..Len(s) : s[i] = c
\* s[i] is the last occurrence of c in s
IsLast(s, i, c) == s[i] = c /\ \A j \in (i + 1)..Len(s) : s[j] # c
\* no byte of the chunk had to be substituted (no chunk encodes U+FFFD itself)
ValidUtf8(chunk) == ~Contains(from_utf8_lossy(chunk), REPLACEMENT)

Writes(h) == {k \in 1..Len(h) : h[k].op = "write"}
Flushes(h) == {k \in 1..Len(h) : h[k].op = "flush"}

\* a Buffered Printer, the sink never failing: some writes, then one flush
RoundTripRun ==
    /\ is_buffered
    /\ fails = 0
    /\ Len(history) >= 2
    /\ Flushes(history) = {Len(history)}

C2_SplitAtLastNewline ==
    /\ \A k \in Writes(history) :
        LET e == history[k]
            b == e.pre \o from_utf8_lossy(e.chunk)
        IN  (is_buffered /\ Contains(b, NL) /\ e.ret.ok) =>
                \E i \in 1..Len(b) :
                    /\ IsLast(b, i, NL)
                    /\ e.calls = <<SinkCall(SubSeq(b, 1, i - 1), TRUE)>>
                    /\ e.post = SubSeq(b, i + 1, Len(b))
    /\ (/\ is_buffered
        /\ Len(history) >= 1
        /\ history[1].chunk = ExampleChunk1
        /\ history[1].ret.ok) =>
            /\ history[1].calls = <<SinkCall(<<97, 98, 99>>, TRUE)>>
            /\ history[1].post = <<100, 101, 102>>
    /\ (/\ is_buffered
        /\ Len(history) >= 2
        /\ history[1].chunk = ExampleChunk1
        /\ history[2].chunk = ExampleChunk2
        /\ history[1].ret.ok /\ history[2].ret.ok) =>
            /\ history[2].calls = <<SinkCall(<<100, 101, 102, 103, 104, 105>>, TRUE)>>
            /\ history[2].post = <<>>

C2_Witness ==
    /\ is_buffered
    /\ Len(history) = 3
    /\ history[1].chunk = ExampleChunk1 /\ history[1].ret.ok
    /\ history[2].chunk = ExampleChunk2 /\ history[2].ret.ok
    /\ history[3].op = "write" /\ history[3].ret.ok
    /\ history[3].calls # <<>>
    /\ Contains(history[3].calls[1].arg, NL)
    /\ history[3].post # <<>>

\* C3: when the sink fails during write(chunk), in either mode, write returns
\* the error and the buffer is the buffer before the call followed by the
\* decoded chunk; a flush that follows and whose sink call succeeds passes
\* that content in one call and leaves the buffer empty.
C3_FailedWriteKeepsAll ==
    \A k \in Writes(history) :
        LET e == history[k]
        IN  (\E i \in 1..Len(e.calls) : ~e.calls[i].ok) =>
                /\ ~e.ret.ok
                /\ e.post = e.pre \o from_utf8_lossy(e.chunk)
                /\ (/\ k < Len(history)
                    /\ history[k + 1].op = "flush"
                    /\ \E i \in 1..Len(history[k + 1].calls) :
                           history[k + 1].calls[i].ok) =>
                        /\ history[k + 1].calls = <<SinkCall(e.post, TRUE)>>
                        /\ history[k + 1].post = <<>>

C3_Witness ==
    /\ Len(history) = 3
    /\ history[1].op = "write" /\ history[1].ret.ok /\ history[1].post # <<>>
    /\ history[2].op = "write" /\ ~history[2].ret.ok /\ history[2].chunk # <<>>
    /\ history[3].op = "flush" /\ history[3].ret.ok /\ history[3].calls # <<>>

\* C4: when write(chunk) fails on the sink and the same write(chunk) is
\* retried with the sink succeeding, then flushed, the text forwarded in
\* total is what one successful write(chunk) and the flush would have
\* forwarded from the same prior state.
C4_RetryForwardsOnce ==
    \A k \in Writes(history) :
        (/\ k + 2 = Len(history)
         /\ ~history[k].ret.ok
         /\ history[k + 1].op = "write"
         /\ history[k + 1].chunk = history[k].chunk
         /\ history[k + 1].ret.ok
         /\ history[k + 2].op = "flush") =>
            LET w == write(history[k].pre, is_buffered, history[k].chunk, TRUE)
                f == flush(w.buffer, TRUE)
            IN  Forwarded(SubSeq(history, k, k + 2))
                    = Forwarded(<<Entry("write", history[k].chunk, history[k].pre, w),
                                  Entry("flush", <<>>, w.buffer, f)>>)

C4_Witness ==
    /\ Len(history) = 3
    /\ history[1].op = "write" /\ ~history[1].ret.ok
    /\ history[2].op = "write" /\ history[2].chunk = history[1].chunk
    /\ history[2].ret.ok
    /\ history[3].op = "flush"

\* ---- init() ----
AllInstalled(n) == installs = [set_print |-> n, set_panic |-> n, set_hook |-> n]
Installed == <<stdout, stderr, panic_hook, installs>>
SomeCallReturned == \E t \in Threads : calls_left[t] < NCalls
Moves(t) == pc'[t] # pc[t]

\* C5: however many callers call init however often, set_stdout, set_stderr
\* and set_panic_hook each run exactly once in total; only the call that runs
\* the closure changes a writer or the handler, and START only moves from
\* INCOMPLETE through RUNNING to COMPLETE.
C5_ExactlyOnce ==
    /\ [](/\ installs.set_print <= 1
          /\ installs.set_panic <= 1
          /\ installs.set_hook <= 1
          /\ (SomeCallReturned \/ START = "COMPLETE") => AllInstalled(1))
    /\ [][Installed' # Installed =>
            /\ START = "RUNNING" /\ START' = "RUNNING"
            /\ Moves(runner) /\ runner' = runner
            /\ \A t \in Threads \ {runner} : ~Moves(t)]_vars
    /\ [][START' # START =>
            \/ START = "INCOMPLETE" /\ START' = "RUNNING"
            \/ START = "RUNNING" /\ START' = "COMPLETE"]_vars

C5_Witness ==
    /\ \A t \in Threads : calls_left[t] = 0
    /\ AllInstalled(1)
    /\ START = "COMPLETE"

\* C6: no call to init returns before the one run of hook() has completed,
\* and every call to init eventually returns.
C6_ReturnAfterRun ==
    /\ [][\A t \in Threads :
            calls_left'[t] < calls_left[t] =>
                START' = "COMPLETE" /\ AllInstalled(1)']_vars
    /\ \A t \in Threads : (pc[t] # "idle") ~> (pc[t] = "idle")

C6_Witness ==
    /\ START = "COMPLETE"
    /\ calls_left[runner] < NCalls
    /\ \E t \in Threads \ {runner} : pc[t] = "wait"

\* C7: an Unbuffered write calls the sink once with the whole buffer (old
\* content, then the decoded chunk) and, the sink succeeding, leaves the
\* buffer empty; after successful Unbuffered writes only, the buffer is empty.
C7_UnbufferedForwardsAll ==
    /\ \A k \in Writes(history) :
        LET e == history[k]
            b == e.pre \o from_utf8_lossy(e.chunk)
        IN  ~is_buffered =>
                /\ Len(e.calls) = 1
                /\ e.calls[1].arg = b
                /\ e.calls[1].ok =>
                      e.post = <<>> /\ e.ret = Ok(Len(e.chunk))
    /\ (/\ ~is_buffered
        /\ \A k \in 1..Len(history) :
              history[k].op = "write" /\ history[k].ret.ok) =>
            buffer = <<>>

C7_Witness ==
    /\ ~is_buffered
    /\ Len(history) = 2
    /\ history[1].op = "write" /\ ~history[1].ret.ok
    /\ history[2].op = "write" /\ history[2].ret.ok
    /\ history[2].pre # <<>>
    /\ Contains(history[2].calls[1].arg, NL)
    /\ buffer = <<>>

\* what C8 says of one flush, in either mode
FlushContract(e) ==
    /\ e.pre # <<>> =>
          /\ Len(e.calls) = 1
          /\ e.calls[1].arg = e.pre
          /\ e.calls[1].ok => e.post = <<>> /\ e.ret.ok
    /\ e.pre = <<>> =>
          /\ e.calls = <<>>
          /\ e.ret.ok
          /\ e.post = e.pre

\* C8 as stated: flush on a non-empty buffer calls the sink once with the
\* whole buffer and, the sink succeeding, empties it; flush on an empty buffer
\* calls nothing, succeeds and changes nothing; two consecutive flushes make
\* at most one sink call.
C8_FlushTwiceOneCall ==
    /\ \A k \in Flushes(history) : FlushContract(history[k])
    /\ \A k \in Flushes(history) :
          (k < Len(history) /\ history[k + 1].op = "flush") =>
              Len(history[k].calls) + Len(history[k + 1].calls) <= 1

\* C8 as amended: the same, two consecutive flushes making at most one sink
\* call when the first of them returns success.
C8_FlushContract ==
    /\ \A k \in Flushes(history) : FlushContract(history[k])
    /\ \A k \in Flushes(history) :
          (k < Len(history) /\ history[k + 1].op = "flush" /\ history[k].ret.ok) =>
              Len(history[k].calls) + Len(history[k + 1].calls) <= 1

C8_Witness ==
    /\ Len(history) = 3
    /\ history[1].op = "write" /\ history[1].post # <<>>
    /\ history[2].op = "flush" /\ history[2].ret.ok /\ history[2].calls # <<>>
    /\ history[3].op = "flush" /\ history[3].calls = <<>>

\* C9: a Buffered write after which the buffer holds no newline calls the
\* sink not at all, keeps old content then decoded chunk, and returns
\* success; newline-free writes accumulate in call order.
C9_NoNewlineNoForward ==
    /\ \A k \in Writes(history) :
        LET e == history[k]
            b == e.pre \o from_utf8_lossy(e.chunk)
        IN  (is_buffered /\ ~Contains(b, NL)) =>
                /\ e.calls = <<>>
                /\ e.post = b
                /\ e.ret = Ok(Len(e.chunk))
    /\ (/\ is_buffered
        /\ \A k \in 1..Len(history) :
              /\ history[k].op = "write"
              /\ ~Contains(from_utf8_lossy(history[k].chunk), NL)) =>
            buffer = DecodedChunks(history)

C9_Witness ==
    /\ is_buffered
    /\ Len(history) = 3
    /\ \A k \in 1..3 :
          /\ history[k].op = "write"
          /\ history[k].chunk # <<>>
          /\ history[k].calls = <<>>
    /\ Len(buffer) >= 3

\* c1 \o c2 is the encoding of one character, c1 ending inside it
SplitsOneChar(c1, c2) ==
    /\ c1 # <<>> /\ c2 # <<>>
    /\ DecodeAt(c1 \o c2, 1).n = Len(c1) + Len(c2) + 1
    /\ DecodeAt(c1 \o c2, 1).c # REPLACEMENT

\* C10: when two consecutive writes deliver the bytes of one multi-byte
\* character, the first ending inside it, the text forwarded up to a final
\* flush is the text forwarded when the same bytes are written as one chunk.
C10_SplitCharPreserved ==
    \A k \in Writes(history) :
        (/\ k + 2 = Len(history)
         /\ history[k].ret.ok
         /\ history[k + 1].op = "write" /\ history[k + 1].ret.ok
         /\ history[k + 2].op = "flush" /\ history[k + 2].ret.ok
         /\ SplitsOneChar(history[k].chunk, history[k + 1].chunk)) =>
            LET c == history[k].chunk \o history[k + 1].chunk
                w == write(history[k].pre, is_buffered, c, TRUE)
                f == flush(w.buffer, TRUE)
            IN  Forwarded(SubSeq(history, k, k + 2))
                    = Forwarded(<<Entry("write", c, history[k].pre, w),
                                  Entry("flush", <<>>, w.buffer, f)>>)

C10_Witness ==
    /\ Len(history) = 3
    /\ history[1].op = "write" /\ history[2].op = "write"
    /\ history[3].op = "flush"
    /\ SplitsOneChar(history[1].chunk, history[2].chunk)

\* ---- conservation of text ----
\* the text a successful sink call of entry e took out of the buffer: the
\* string forwarded and, for a Buffered write, the newline it was split at
EntryConsumed(e) ==
    Flatten([i \in 1..Len(e.calls) |->
                IF ~e.calls[i].ok THEN <<>>
                ELSE IF e.op = "write" /\ is_buffered THEN e.calls[i].arg \o <<NL>>
                ELSE e.calls[i].arg])

Consumed(h) == Flatten([k \in 1..Len(h) |-> EntryConsumed(h[k])])

\* C11: in either mode, the sink failing or not, after a successful write or
\* flush the buffer is exactly the part of its content not passed to the
\* sink, and the successful sink calls (with the newline each Buffered write
\* split at) followed by the buffer are the decoded input: no character is
\* in two successful sink calls, nor in one and in the buffer.
C11_ForwardedOnce ==
    /\ \A k \in 1..Len(history) :
        LET e == history[k]
        IN  e.ret.ok =>
                e.pre \o from_utf8_lossy(e.chunk) = EntryConsumed(e) \o e.post
    /\ Consumed(history) \o buffer = DecodedChunks(history)

C11_Witness ==
    /\ Len(history) = 3
    /\ history[1].op = "write" /\ ~history[1].ret.ok
    /\ history[2].op = "write" /\ history[2].ret.ok /\ history[2].calls # <<>>
    /\ history[2].post # <<>>
    /\ history[3].op = "flush" /\ history[3].ret.ok /\ history[3].calls # <<>>

IsPrefix(p, s) == Len(p) <= Len(s) /\ SubSeq(s, 1, Len(p)) = p
IsSuffix(p, s) == Len(p) <= Len(s) /\ SubSeq(s, Len(s) - Len(p) + 1, Len(s)) = p

\* C13: a write that returns success returns the length in bytes of its
\* chunk, and what it forwards and what it keeps are cut from the buffer with
\* the whole decoded chunk appended.
C13_WholeChunkAccepted ==
    \A k \in Writes(history) :
        LET e == history[k]
            b == e.pre \o from_utf8_lossy(e.chunk)
        IN  e.ret.ok =>
                /\ e.ret.n = Len(e.chunk)
                /\ IsSuffix(e.post, b)
                /\ \A i \in 1..Len(e.calls) : IsPrefix(e.calls[i].arg, b)
                /\ e.calls = <<>> => e.post = b
                /\ (is_buffered /\ Contains(from_utf8_lossy(e.chunk), NL)) =>
                      /\ e.calls # <<>>
                      /\ Len(e.post) < Len(from_utf8_lossy(e.chunk))

C13_Witness ==
    /\ is_buffered
    /\ Len(history) = 3
    /\ history[1].op = "write" /\ history[1].chunk = <<>> /\ history[1].ret = Ok(0)
    /\ history[2].op = "write" /\ history[2].chunk = <<195, 169>>
    /\ history[2].ret = Ok(2) /\ history[2].calls = <<>>
    /\ history[3].op = "write" /\ history[3].chunk = TwoLineChunk
    /\ history[3].ret = Ok(4) /\ history[3].calls # <<>>

\* C14: write returns an error only when it called the sink and the sink
\* returned an error, whatever the bytes of the chunk; with a sink that
\* always returns Ok, as print and eprint do, no write or flush fails.
C14_OnlySinkErrors ==
    /\ \A k \in 1..Len(history) :
        LET e == history[k]
        IN  e.ret.ok <=> \A i \in 1..Len(e.calls) : e.calls[i].ok
    /\ fails = 0 => \A k \in 1..Len(history) : history[k].ret.ok

C14_Witness ==
    /\ Len(history) = 3
    /\ fails = 0
    /\ history[1].op = "write" /\ history[1].chunk = <<169>>
    /\ history[1].ret.ok
    /\ history[2].op = "write" /\ history[2].chunk = <<195>>
    /\ history[2].calls = <<>> \/ history[2].calls[1].ok
    /\ history[3].op = "write" /\ history[3].calls # <<>>
    /\ Contains(history[3].calls[1].arg, REPLACEMENT)

\* the step is a flush during which the sink returned an error
FailingFlushStep ==
    /\ Len(history') = Len(history) + 1
    /\ history'[Len(history')].op = "flush"
    /\ \E i \in 1..Len(history'[Len(history')].calls) :
          ~history'[Len(history')].calls[i].ok

\* C17: when the sink fails during flush, flush returns the error and leaves
\* buffer and mode as they were; a flush that follows with the sink
\* succeeding forwards the same content.
C17_FailedFlushKeepsState ==
    /\ [][FailingFlushStep =>
            /\ ~history'[Len(history')].ret.ok
            /\ buffer' = buffer
            /\ is_buffered' = is_buffered]_vars
    /\ [](\A k \in Flushes(history) :
            (/\ ~history[k].ret.ok
             /\ k < Len(history)
             /\ history[k + 1].op = "flush"
             /\ history[k + 1].ret.ok) =>
                /\ history[k + 1].calls = <<SinkCall(history[k].pre, TRUE)>>
                /\ history[k].calls = <<SinkCall(history[k].pre, FALSE)>>)

C17_Witness ==
    /\ Len(history) = 3
    /\ history[1].op = "write" /\ history[1].post # <<>>
    /\ history[2].op = "flush" /\ ~history[2].ret.ok
    /\ history[3].op = "flush" /\ history[3].ret.ok
    /\ buffer = <<>>

\* C18: in Buffered mode, after every write that returns success, whatever
\* came before, and after every successful flush, the buffer holds no newline.
C18_NoNewlineKept ==
    \A k \in 1..Len(history) :
        (is_buffered /\ history[k].ret.ok) => ~Contains(history[k].post, NL)

C18_Witness ==
    /\ is_buffered
    /\ Len(history) = 3
    /\ history[1].op = "write" /\ ~history[1].ret.ok
    /\ Contains(history[1].post, NL)
    /\ history[2].op = "write" /\ history[2].ret.ok
    /\ Contains(from_utf8_lossy(history[2].chunk), NL)
    /\ history[2].post # <<>>
    /\ history[3].op = "flush" /\ history[3].ret.ok

\* C19: in Buffered mode, the sink never failing, the strings passed to the
\* sink in call order, one newline after each string forwarded by a write
\* and none after those forwarded by flush, followed by the buffer, are the
\* decoded chunks written so far in call order.
C19_ConservationInOrder ==
    (is_buffered /\ fails = 0) =>
        ForwardedLines(history) \o buffer = DecodedChunks(history)

C19_Witness ==
    /\ is_buffered /\ fails = 0
    /\ Len(history) = 3
    /\ history[1].op = "write" /\ history[1].calls # <<>>
    /\ history[1].post # <<>>
    /\ history[2].op = "flush" /\ history[2].calls # <<>>
    /\ history[3].op = "write" /\ history[3].calls # <<>>
    /\ buffer # <<>>

\* C20: every write and every flush calls the sink at most once, in either
\* mode, the sink failing or not, a Buffered write of several newlines
\* included; no operation changes the mode.
C20_AtMostOneSinkCall ==
    /\ [](\A k \in 1..Len(history) : Len(history[k].calls) <= 1)
    /\ [][is_buffered' = is_buffered]_vars

C20_Witness ==
    /\ is_buffered
    /\ Len(history) = 3
    /\ history[1].op = "write" /\ history[1].chunk = TwoLineChunk
    /\ Len(history[1].calls) = 1
    /\ history[2].op = "write" /\ ~history[2].ret.ok
    /\ history[3].op = "flush" /\ Len(history[3].calls) = 1

\* ---- the process ----
\* the step adds an event, LastEvent, to the events of the process
Stepped == Len(events') = Len(events) + 1
LastEvent == events'[Len(events')]
NumEvents(evs) == Cardinality({k \in 1..Len(events) : events[k].ev \in evs})
HasText(payload) == payload.kind \in {"str", "String"}

\* C12: the report of a panic is "Panicked at '<message>', <file>:<line>:
\* <column>" when the location is present and "Panicked at an unknown
\* location '<message>'" when not, the message being the text of the payload
\* or "unknown location" when it has none.
C12_PanicReport ==
    \A k \in 1..Len(events) :
        events[k].ev = "panic" =>
            LET info == events[k].arg
                loc == info.location
                message == IF HasText(info.payload) THEN info.payload.text
                           ELSE "unknown location"
                report == events[k].out[1].text
            IN  /\ loc.some =>
                      report = "Panicked at '" \o message \o "', " \o loc.file
                                  \o ":" \o ToString(loc.line)
                                  \o ":" \o ToString(loc.column)
                /\ ~loc.some =>
                      report = "Panicked at an unknown location '" \o message \o "'"
                /\ (info.payload.text = "boom" /\ loc.some) =>
                      report = "Panicked at 'boom', x.rs:10:3"
                /\ (~HasText(info.payload) /\ ~loc.some) =>
                      report = "Panicked at an unknown location 'unknown location'"

C12_Witness ==
    /\ Len(events) = 3
    /\ events[2].ev = "panic"
    /\ events[2].arg.payload.text = "boom" /\ events[2].arg.location.some
    /\ events[3].ev = "panic"
    /\ events[3].arg.payload.kind = "other" /\ ~events[3].arg.location.some
    /\ Len(console) = 2

StdoutInstallers == {"set_stdout", "set_stdout_unbuffered"}
StderrInstallers == {"set_stderr", "set_stderr_unbuffered"}

\* C15: an installer call puts a new writer in its channel, with an empty
\* buffer, the mode the call names and the sink of the channel (print for
\* standard output, eprint for standard error); the writer it replaces is
\* dropped without being forwarded and the other channel is left alone; no
\* other step replaces a writer.
C15_InstallReplaces ==
    /\ [][Stepped =>
            /\ LastEvent.ev \in StdoutInstallers =>
                  /\ stdout' = [print_fn |-> "print", buffer |-> <<>>,
                                is_buffered |-> (LastEvent.ev = "set_stdout"),
                                id |-> NumEvents(StdoutInstallers) + 1]
                  /\ stderr' = stderr
                  /\ console' = console
            /\ LastEvent.ev \in StderrInstallers =>
                  /\ stderr' = [print_fn |-> "eprint", buffer |-> <<>>,
                                is_buffered |-> (LastEvent.ev = "set_stderr"),
                                id |-> NumEvents(StderrInstallers) + 1]
                  /\ stdout' = stdout
                  /\ console' = console
            /\ LastEvent.ev \notin StdoutInstallers =>
                  /\ stdout'.id = stdout.id
                  /\ stdout'.is_buffered = stdout.is_buffered
                  /\ stdout'.print_fn = stdout.print_fn
            /\ LastEvent.ev \notin StderrInstallers =>
                  /\ stderr'.id = stderr.id
                  /\ stderr'.is_buffered = stderr.is_buffered
                  /\ stderr'.print_fn = stderr.print_fn]_vars
    /\ [](\A k \in 1..Len(events) : \A i \in 1..Len(events[k].out) :
            /\ events[k].ev \in {"stdout_write", "stdout_flush"} =>
                  events[k].out[i].level = "info"
            /\ events[k].ev \in {"stderr_write", "stderr_flush"} =>
                  events[k].out[i].level = "warn")

C15_Witness ==
    /\ Len(events) = 4
    /\ events[1].ev = "set_stderr"
    /\ events[2].ev = "stderr_write" /\ events[2].out = <<>>
    /\ events[3].ev = "set_stdout"
    /\ events[4].ev = "set_stderr_unbuffered"
    /\ stderr = [print_fn |-> "eprint", buffer |-> <<>>, is_buffered |-> FALSE,
                 id |-> 2]
    /\ stdout.id = 1 /\ stdout.is_buffered
    /\ console = <<>>

\* C16: with the hook installed, a panic makes one call to console.trace
\* with the report and none to console.info or console.warn, returns no
\* error and touches neither writer; set_panic_hook replaces the handler, so
\* the handler in place is the one of the latest call and one panic makes one
\* call however often the hook was installed.
C16_PanicHookOnce ==
    /\ [][(Stepped /\ LastEvent.ev = "panic") =>
            /\ Len(console') = Len(console) + 1
            /\ SubSeq(console', 1, Len(console)) = console
            /\ console'[Len(console')].level = "trace"
            /\ console'[Len(console')].text = LastEvent.out[1].text
            /\ Len(LastEvent.out) = 1
            /\ LastEvent.ret.ok
            /\ stdout' = stdout /\ stderr' = stderr
            /\ panic_hook' = panic_hook]_vars
    /\ [][(Stepped /\ LastEvent.ev = "set_panic_hook") =>
            /\ panic_hook' = [handler |-> "trace", id |-> panic_hook.id + 1]
            /\ console' = console]_vars
    /\ [](panic_hook.id = NumEvents({"set_panic_hook"}))

C16_Witness ==
    /\ Len(events) = 4
    /\ events[1].ev = "set_panic_hook"
    /\ events[2].ev = "panic"
    /\ events[3].ev = "set_panic_hook"
    /\ events[4].ev = "panic"
    /\ panic_hook.id = 2
    /\ Len(console) = 2

====
